---- MODULE Spec2Model ----
(***************************************************************************)
(* Model of paho.DefaultPinger (paho/pinger.go): the MQTT keepalive        *)
(* controller Run, its emitter goroutines and the traffic notifications.   *)
(* Time is a discrete clock of one-second ticks; the zero time.Time is 0   *)
(* and the clock starts at Epoch, later than zero + any keepalive.         *)
(* Also Connect.InitProperties and Connect.Packet of package paho, on the   *)
(* properties they test and a sample of those they copy.                   *)
(***************************************************************************)
EXTENDS Integers, Sequences, FiniteSets, TLC

\* ---- bounds -------------------------------------------------------------
NumRuns == 2
MaxTime == 1
MaxKeepAlive == 1
MaxByte == 1
MaxUint == 1

Runs == 1..NumRuns
KeepAlives == {0, MaxKeepAlive}
ZeroTime == 0
Epoch == MaxKeepAlive + 1
LastInstant == Epoch + MaxTime
ErrChCap == 1

VARIABLES
    now,                 \* time.Now()
    lastPacketSent,      \* DefaultPinger.lastPacketSent
    lastPacketReceived,  \* DefaultPinger.lastPacketReceived
    lastPingResponse,    \* DefaultPinger.lastPingResponse
    running,             \* DefaultPinger.running
    pc,                  \* position of each Run call
    keepAlive,           \* argument keepAlive of each Run call
    conn,                \* argument conn of each Run call: "nil", "open", "closed"
    cancelled,           \* ctx.Done() of each Run call is closed
    result,              \* value returned by each Run call
    timerAt,             \* deadline of the Run's timer (ZeroTime: stopped or fired)
    lastPingSent,        \* local lastPingSent of each Run call
    errCh,               \* local errCh of each Run call
    emitters,            \* live goroutines spawned by each Run call, per position
    snap,                \* locals t, lastPingResponse, pingDue read at a timer fire
    respSince,           \* history: PingResp was called since this Run's last dispatch
    unanswered,          \* history: at the handled timer fire the last dispatch had no PingResp
    props,               \* argument p of InitProperties (*packets.Properties)
    cProperties,         \* Connect.Properties (*ConnectProperties)
    vProperties,         \* Properties of the packets.Connect built by Packet()
    cpc                  \* position of the conversion of the Connect packet

monitor == <<lastPacketSent, lastPacketReceived, lastPingResponse>>
vars == <<now, lastPacketSent, lastPacketReceived, lastPingResponse, running,
          pc, keepAlive, conn, cancelled, result, timerAt,
          lastPingSent, errCh, emitters, snap, respSince, unanswered,
          props, cProperties, vProperties, cpc>>
pinger == <<now, lastPacketSent, lastPacketReceived, lastPingResponse, running,
            pc, keepAlive, conn, cancelled, result, timerAt,
            lastPingSent, errCh, emitters, snap, respSince, unanswered>>
connect == <<props, cProperties, vProperties, cpc>>

\* ---- values -------------------------------------------------------------
NoResult == [kind |-> "none", cause |-> ""]
Success == [kind |-> "nil", cause |-> ""]
ErrConnNil == [kind |-> "conn is nil", cause |-> ""]
ErrAlreadyRunning == [kind |-> "Run() already in progress", cause |-> ""]
\* the timeout reported as a nil error
ErrPingRespTimeout_Nil == [kind |-> "nil", cause |-> ""]
ErrPingRespTimeout == [kind |-> "PINGRESP timed out", cause |-> ""]
\* the wrapping with the cause dropped
WrapWriteError_NoCause(e) == [kind |-> "failed to send PINGREQ", cause |-> ""]
WrapWriteError(e) == [kind |-> "failed to send PINGREQ", cause |-> e]

ErrReset == "connection reset"
ErrClosed == "use of closed network connection"
WriteErrors == {ErrReset, ErrClosed}

NoSnap == [t |-> ZeroTime, lastPingResponse |-> ZeroTime, pingDue |-> ZeroTime]

InLoop == {"select", "snapped"}

Before(a, b) == a < b
After(a, b) == a > b
IsZero(a) == a = ZeroTime

\* the interval with the timer period doubled
Interval_Doubled(r) == keepAlive[r] + keepAlive[r]

Interval(r) == keepAlive[r]

\* the deadline without the keepalive interval added
PingDue_NoInterval(r) ==
    IF Before(lastPacketSent, lastPacketReceived)
    THEN lastPacketSent
    ELSE lastPacketReceived

\* the deadline anchored on the last packet sent alone (MQTT-3.1.2-20)
PingDue_SentOnly(r) == lastPacketSent + Interval(r)

\* the deadline anchored on the fresher of last-sent and last-received
PingDue_Fresher(r) ==
    IF After(lastPacketSent, lastPacketReceived)
    THEN lastPacketSent + Interval(r)
    ELSE lastPacketReceived + Interval(r)

PingDue(r) ==
    IF Before(lastPacketSent, lastPacketReceived)
    THEN lastPacketSent + Interval(r)
    ELSE lastPacketReceived + Interval(r)

\* The live emitter goroutines of a Run call, counted by position: "writing"
\* is inside WriteTo(conn); an error e counts those blocked in errCh <- e.
EmitterStates == {"writing"} \cup WriteErrors
NoEmitters == [s \in EmitterStates |-> 0]

\* a pointer is the empty sequence (nil) or a sequence of the one value it
\* points to
Nil == <<>>
Ptr(v) == <<v>>
Deref(ptr) == Head(ptr)
Byte(b) == Ptr(b)
Optional(S) == {Nil} \cup {Ptr(v) : v \in S}

AuthMethods == {"", "SCRAM"}

\* the fields of packets.Properties that InitProperties reads (of the fields
\* it only copies: SessionExpiryInterval, AuthMethod and ReceiveMaximum)
PacketProperties ==
    [SessionExpiryInterval : Optional(0..MaxUint),
     AuthMethod : AuthMethods,
     ReceiveMaximum : Optional(0..MaxUint),
     RequestProblemInfo : Optional(0..MaxByte),
     RequestResponseInfo : Optional(0..MaxByte)]

NoProperties ==
    [SessionExpiryInterval |-> Nil, AuthMethod |-> "", ReceiveMaximum |-> Nil,
     RequestProblemInfo |-> Nil, RequestResponseInfo |-> Nil]

\* no Connect packet is being converted
ConnectAbsent ==
    /\ props = NoProperties
    /\ cProperties = Nil
    /\ vProperties = Nil
    /\ cpc = "absent"

\* ---- initial state ------------------------------------------------------
Init ==
    /\ now = Epoch
    /\ lastPacketSent = ZeroTime
    /\ lastPacketReceived = ZeroTime
    /\ lastPingResponse = ZeroTime
    /\ running = FALSE
    /\ pc = [r \in Runs |-> "idle"]
    /\ keepAlive = [r \in Runs |-> 0]
    /\ conn = [r \in Runs |-> "nil"]
    /\ cancelled = [r \in Runs |-> FALSE]
    /\ result = [r \in Runs |-> NoResult]
    /\ timerAt = [r \in Runs |-> ZeroTime]
    /\ lastPingSent = [r \in Runs |-> ZeroTime]
    /\ errCh = [r \in Runs |-> <<>>]
    /\ emitters = [r \in Runs |-> NoEmitters]
    /\ snap = [r \in Runs |-> NoSnap]
    /\ respSince = [r \in Runs |-> FALSE]
    /\ unanswered = [r \in Runs |-> FALSE]
    /\ ConnectAbsent

\* ---- environment --------------------------------------------------------
Tick ==
    /\ now < LastInstant
    /\ now' = now + 1
    /\ UNCHANGED <<connect, lastPacketSent, lastPacketReceived, lastPingResponse, running,
                   pc, keepAlive, conn, cancelled, result, timerAt,
                   lastPingSent, errCh, emitters, snap, respSince, unanswered>>

\* PacketSent recording a time read before the lock was acquired
PacketSent_TimeBeforeLock ==
    /\ \E t \in Epoch..now : lastPacketSent' = t
    /\ UNCHANGED <<connect, now, lastPacketReceived, lastPingResponse, running,
                   pc, keepAlive, conn, cancelled, result, timerAt,
                   lastPingSent, errCh, emitters, snap, respSince, unanswered>>

PacketSent ==
    /\ lastPacketSent' = now
    /\ UNCHANGED <<connect, now, lastPacketReceived, lastPingResponse, running,
                   pc, keepAlive, conn, cancelled, result, timerAt,
                   lastPingSent, errCh, emitters, snap, respSince, unanswered>>

PacketReceived ==
    /\ lastPacketReceived' = now
    /\ UNCHANGED <<connect, now, lastPacketSent, lastPingResponse, running,
                   pc, keepAlive, conn, cancelled, result, timerAt,
                   lastPingSent, errCh, emitters, snap, respSince, unanswered>>

PingResp ==
    /\ lastPingResponse' = now
    /\ respSince' = [r \in Runs |-> respSince[r] \/ ~IsZero(lastPingSent[r])]
    /\ UNCHANGED <<connect, now, lastPacketSent, lastPacketReceived, running,
                   pc, keepAlive, conn, cancelled, result, timerAt,
                   lastPingSent, errCh, emitters, snap, unanswered>>

Cancel(r) ==
    /\ pc[r] \in {"select", "snapped"}
    /\ ~cancelled[r]
    /\ cancelled' = [cancelled EXCEPT ![r] = TRUE]
    /\ UNCHANGED <<connect, now, lastPacketSent, lastPacketReceived, lastPingResponse, running,
                   pc, keepAlive, conn, result, timerAt,
                   lastPingSent, errCh, emitters, snap, respSince, unanswered>>

CloseConn(r) ==
    /\ emitters[r]["writing"] > 0
    /\ conn[r] = "open"
    /\ conn' = [conn EXCEPT ![r] = "closed"]
    /\ UNCHANGED <<connect, now, lastPacketSent, lastPacketReceived, lastPingResponse, running,
                   pc, keepAlive, cancelled, result, timerAt,
                   lastPingSent, errCh, emitters, snap, respSince, unanswered>>

\* ---- Run ----------------------------------------------------------------
\* RunCall without the test of p.running
RunCall_NoRunningCheck(r, k, c) ==
    /\ pc[r] = "idle"
    /\ \A q \in Runs : q < r => pc[q] # "idle"
    /\ IF k = 0
       THEN /\ result' = [result EXCEPT ![r] = Success]
            /\ pc' = [pc EXCEPT ![r] = "done"]
            /\ UNCHANGED <<running, keepAlive, conn, timerAt>>
       ELSE IF c = "nil"
       THEN /\ result' = [result EXCEPT ![r] = ErrConnNil]
            /\ pc' = [pc EXCEPT ![r] = "done"]
            /\ UNCHANGED <<running, keepAlive, conn, timerAt>>
       ELSE /\ running' = TRUE
            /\ keepAlive' = [keepAlive EXCEPT ![r] = k]
            /\ conn' = [conn EXCEPT ![r] = c]
            /\ timerAt' = [timerAt EXCEPT ![r] = now]
            /\ pc' = [pc EXCEPT ![r] = "select"]
            /\ UNCHANGED result
    /\ UNCHANGED <<connect, now, lastPacketSent, lastPacketReceived, lastPingResponse,
                   cancelled, lastPingSent, errCh, emitters, snap,
                   respSince, unanswered>>

\* RunCall with the test of conn placed before the test of keepAlive
RunCall_ConnFirst(r, k, c) ==
    /\ pc[r] = "idle"
    /\ \A q \in Runs : q < r => pc[q] # "idle"
    /\ IF c = "nil"
       THEN /\ result' = [result EXCEPT ![r] = ErrConnNil]
            /\ pc' = [pc EXCEPT ![r] = "done"]
            /\ UNCHANGED <<running, keepAlive, conn, timerAt>>
       ELSE IF k = 0
       THEN /\ result' = [result EXCEPT ![r] = Success]
            /\ pc' = [pc EXCEPT ![r] = "done"]
            /\ UNCHANGED <<running, keepAlive, conn, timerAt>>
       ELSE IF running
       THEN /\ result' = [result EXCEPT ![r] = ErrAlreadyRunning]
            /\ pc' = [pc EXCEPT ![r] = "done"]
            /\ UNCHANGED <<running, keepAlive, conn, timerAt>>
       ELSE /\ running' = TRUE
            /\ keepAlive' = [keepAlive EXCEPT ![r] = k]
            /\ conn' = [conn EXCEPT ![r] = c]
            /\ timerAt' = [timerAt EXCEPT ![r] = now]
            /\ pc' = [pc EXCEPT ![r] = "select"]
            /\ UNCHANGED result
    /\ UNCHANGED <<connect, now, lastPacketSent, lastPacketReceived, lastPingResponse,
                   cancelled, lastPingSent, errCh, emitters, snap,
                   respSince, unanswered>>

\* RunCall with the test of conn placed after the test of p.running
RunCall_ConnAfterLock(r, k, c) ==
    /\ pc[r] = "idle"
    /\ \A q \in Runs : q < r => pc[q] # "idle"
    /\ IF k = 0
       THEN /\ result' = [result EXCEPT ![r] = Success]
            /\ pc' = [pc EXCEPT ![r] = "done"]
            /\ UNCHANGED <<running, keepAlive, conn, timerAt>>
       ELSE IF running
       THEN /\ result' = [result EXCEPT ![r] = ErrAlreadyRunning]
            /\ pc' = [pc EXCEPT ![r] = "done"]
            /\ UNCHANGED <<running, keepAlive, conn, timerAt>>
       ELSE IF c = "nil"
       THEN /\ result' = [result EXCEPT ![r] = ErrConnNil]
            /\ pc' = [pc EXCEPT ![r] = "done"]
            /\ UNCHANGED <<running, keepAlive, conn, timerAt>>
       ELSE /\ running' = TRUE
            /\ keepAlive' = [keepAlive EXCEPT ![r] = k]
            /\ conn' = [conn EXCEPT ![r] = c]
            /\ timerAt' = [timerAt EXCEPT ![r] = now]
            /\ pc' = [pc EXCEPT ![r] = "select"]
            /\ UNCHANGED result
    /\ UNCHANGED <<connect, now, lastPacketSent, lastPacketReceived, lastPingResponse,
                   cancelled, lastPingSent, errCh, emitters, snap,
                   respSince, unanswered>>

\* RunCall with lastPingSent initialised to the time of the call
RunCall_PingSentNow(r, k, c) ==
    /\ pc[r] = "idle"
    /\ \A q \in Runs : q < r => pc[q] # "idle"
    /\ IF k = 0
       THEN /\ result' = [result EXCEPT ![r] = Success]
            /\ pc' = [pc EXCEPT ![r] = "done"]
            /\ UNCHANGED <<running, keepAlive, conn, timerAt, lastPingSent>>
       ELSE IF c = "nil"
       THEN /\ result' = [result EXCEPT ![r] = ErrConnNil]
            /\ pc' = [pc EXCEPT ![r] = "done"]
            /\ UNCHANGED <<running, keepAlive, conn, timerAt, lastPingSent>>
       ELSE IF running
       THEN /\ result' = [result EXCEPT ![r] = ErrAlreadyRunning]
            /\ pc' = [pc EXCEPT ![r] = "done"]
            /\ UNCHANGED <<running, keepAlive, conn, timerAt, lastPingSent>>
       ELSE /\ running' = TRUE
            /\ keepAlive' = [keepAlive EXCEPT ![r] = k]
            /\ conn' = [conn EXCEPT ![r] = c]
            /\ timerAt' = [timerAt EXCEPT ![r] = now]
            /\ lastPingSent' = [lastPingSent EXCEPT ![r] = now]
            /\ pc' = [pc EXCEPT ![r] = "select"]
            /\ UNCHANGED result
    /\ UNCHANGED <<connect, now, lastPacketSent, lastPacketReceived, lastPingResponse,
                   cancelled, errCh, emitters, snap,
                   respSince, unanswered>>

RunCall(r, k, c) ==
    /\ pc[r] = "idle"
    /\ \A q \in Runs : q < r => pc[q] # "idle"
    /\ IF k = 0
       THEN /\ result' = [result EXCEPT ![r] = Success]
            /\ pc' = [pc EXCEPT ![r] = "done"]
            /\ UNCHANGED <<running, keepAlive, conn, timerAt>>
       ELSE IF c = "nil"
       THEN /\ result' = [result EXCEPT ![r] = ErrConnNil]
            /\ pc' = [pc EXCEPT ![r] = "done"]
            /\ UNCHANGED <<running, keepAlive, conn, timerAt>>
       ELSE IF running
       THEN /\ result' = [result EXCEPT ![r] = ErrAlreadyRunning]
            /\ pc' = [pc EXCEPT ![r] = "done"]
            /\ UNCHANGED <<running, keepAlive, conn, timerAt>>
       ELSE /\ running' = TRUE
            /\ keepAlive' = [keepAlive EXCEPT ![r] = k]
            /\ conn' = [conn EXCEPT ![r] = c]
            /\ timerAt' = [timerAt EXCEPT ![r] = now]
            /\ pc' = [pc EXCEPT ![r] = "select"]
            /\ UNCHANGED result
    /\ UNCHANGED <<connect, now, lastPacketSent, lastPacketReceived, lastPingResponse,
                   cancelled, lastPingSent, errCh, emitters, snap,
                   respSince, unanswered>>

\* Return without the deferred release of p.running
Return_KeepRunning(r, v) ==
    /\ result' = [result EXCEPT ![r] = v]
    /\ timerAt' = [timerAt EXCEPT ![r] = ZeroTime]
    /\ pc' = [pc EXCEPT ![r] = "done"]
    /\ keepAlive' = [keepAlive EXCEPT ![r] = 0]
    /\ cancelled' = [cancelled EXCEPT ![r] = FALSE]
    /\ lastPingSent' = [lastPingSent EXCEPT ![r] = ZeroTime]
    /\ snap' = [snap EXCEPT ![r] = NoSnap]
    /\ respSince' = [respSince EXCEPT ![r] = FALSE]
    /\ UNCHANGED <<running, unanswered>>

\* return v with the deferred functions: timer.Stop() and the release of running
Return(r, v) ==
    /\ result' = [result EXCEPT ![r] = v]
    /\ timerAt' = [timerAt EXCEPT ![r] = ZeroTime]
    /\ running' = FALSE
    /\ pc' = [pc EXCEPT ![r] = "done"]
    /\ keepAlive' = [keepAlive EXCEPT ![r] = 0]
    /\ cancelled' = [cancelled EXCEPT ![r] = FALSE]
    /\ lastPingSent' = [lastPingSent EXCEPT ![r] = ZeroTime]
    /\ snap' = [snap EXCEPT ![r] = NoSnap]
    /\ respSince' = [respSince EXCEPT ![r] = FALSE]
    /\ UNCHANGED unanswered

ErrCtxCanceled == [kind |-> "context canceled", cause |-> ""]

\* the ctx.Done() case returning ctx.Err()
SelectCtxDone_CtxErr(r) ==
    /\ pc[r] = "select"
    /\ cancelled[r]
    /\ Return(r, ErrCtxCanceled)
    /\ UNCHANGED <<connect, now, lastPacketSent, lastPacketReceived, lastPingResponse,
                   conn, errCh, emitters>>

\* the ctx.Done() case joining the emitters before it returns
SelectCtxDone_Join(r) ==
    /\ pc[r] = "select"
    /\ cancelled[r]
    /\ emitters[r]["writing"] = 0
    /\ Return(r, Success)
    /\ UNCHANGED <<connect, now, lastPacketSent, lastPacketReceived, lastPingResponse,
                   conn, errCh, emitters>>

SelectCtxDone(r) ==
    /\ pc[r] = "select"
    /\ cancelled[r]
    /\ Return(r, Success)
    /\ UNCHANGED <<connect, now, lastPacketSent, lastPacketReceived, lastPingResponse,
                   conn, errCh, emitters>>

\* the reads of a timer fire without the lock: PingResp and PacketReceived
\* take effect between the read of lastPingResponse and the reads of the
\* packet times
SelectTimer_Torn(r, t) ==
    /\ pc[r] = "select"
    /\ timerAt[r] # ZeroTime
    /\ t >= timerAt[r]
    /\ t <= now
    /\ timerAt' = [timerAt EXCEPT ![r] = ZeroTime]
    /\ lastPingResponse' = now
    /\ lastPacketReceived' = now
    /\ snap' = [snap EXCEPT ![r] = [t |-> t,
                                    lastPingResponse |-> lastPingResponse,
                                    pingDue |-> IF Before(lastPacketSent, now)
                                                THEN lastPacketSent + Interval(r)
                                                ELSE now + Interval(r)]]
    /\ unanswered' = [unanswered EXCEPT ![r] = ~IsZero(lastPingSent[r]) /\ ~respSince[r]]
    /\ pc' = [pc EXCEPT ![r] = "snapped"]
    /\ UNCHANGED <<connect, now, lastPacketSent, running,
                   keepAlive, conn, cancelled, result,
                   lastPingSent, errCh, emitters, respSince>>

SelectTimer(r, t) ==
    /\ pc[r] = "select"
    /\ timerAt[r] # ZeroTime
    /\ t >= timerAt[r]
    /\ t <= now
    /\ timerAt' = [timerAt EXCEPT ![r] = ZeroTime]
    /\ snap' = [snap EXCEPT ![r] = [t |-> t,
                                    lastPingResponse |-> lastPingResponse,
                                    pingDue |-> PingDue(r)]]
    /\ unanswered' = [unanswered EXCEPT ![r] = ~IsZero(lastPingSent[r]) /\ ~respSince[r]]
    /\ pc' = [pc EXCEPT ![r] = "snapped"]
    /\ UNCHANGED <<connect, now, lastPacketSent, lastPacketReceived, lastPingResponse, running,
                   keepAlive, conn, cancelled, result,
                   lastPingSent, errCh, emitters, respSince>>

\* the timeout test with "not before" in place of "after"
PingRespTimedOut_NotBefore(r) ==
    ~IsZero(lastPingSent[r]) /\ ~Before(lastPingSent[r], snap[r].lastPingResponse)

\* the timeout test with its two operands exchanged
PingRespTimedOut_Reversed(r) ==
    ~IsZero(lastPingSent[r]) /\ After(snap[r].lastPingResponse, lastPingSent[r])

\* the timeout test without the comparison with lastPingResponse
PingRespTimedOut_AnySent(r) == ~IsZero(lastPingSent[r])

PingRespTimedOut(r) ==
    ~IsZero(lastPingSent[r]) /\ After(lastPingSent[r], snap[r].lastPingResponse)

TimerDecide(r) ==
    /\ pc[r] = "snapped"
    /\ IF PingRespTimedOut(r)
       THEN /\ Return(r, ErrPingRespTimeout)
            /\ UNCHANGED emitters
       ELSE IF Before(snap[r].t, snap[r].pingDue)
       THEN /\ timerAt' = [timerAt EXCEPT ![r] = now + (snap[r].pingDue - snap[r].t)]
            /\ pc' = [pc EXCEPT ![r] = "select"]
            /\ snap' = [snap EXCEPT ![r] = NoSnap]
            /\ unanswered' = [unanswered EXCEPT ![r] = FALSE]
            /\ UNCHANGED <<result, running, keepAlive, cancelled, lastPingSent,
                           emitters, respSince>>
       ELSE /\ lastPingSent' = [lastPingSent EXCEPT ![r] = now]
            /\ emitters' = [emitters EXCEPT ![r]["writing"] = @ + 1]
            /\ timerAt' = [timerAt EXCEPT ![r] = now + Interval(r)]
            /\ respSince' = [respSince EXCEPT ![r] = FALSE]
            /\ pc' = [pc EXCEPT ![r] = "select"]
            /\ snap' = [snap EXCEPT ![r] = NoSnap]
            /\ unanswered' = [unanswered EXCEPT ![r] = FALSE]
            /\ UNCHANGED <<result, running, keepAlive, cancelled>>
    /\ UNCHANGED <<connect, now, lastPacketSent, lastPacketReceived, lastPingResponse,
                   conn, errCh>>

SelectErrCh(r) ==
    /\ pc[r] = "select"
    /\ errCh[r] # <<>>
    /\ errCh' = [errCh EXCEPT ![r] = Tail(@)]
    /\ Return(r, Head(errCh[r]))
    /\ UNCHANGED <<connect, now, lastPacketSent, lastPacketReceived, lastPingResponse,
                   conn, emitters>>

\* ---- emitter goroutine --------------------------------------------------
WriteResult(r) == IF conn[r] = "closed" THEN ErrClosed ELSE ErrReset

WriteOk(r) ==
    /\ emitters[r]["writing"] > 0
    /\ conn[r] = "open"
    /\ emitters' = [emitters EXCEPT ![r]["writing"] = @ - 1]
    /\ UNCHANGED <<connect, now, lastPacketSent, lastPacketReceived, lastPingResponse, running,
                   pc, keepAlive, conn, cancelled, result, timerAt,
                   lastPingSent, errCh, snap, respSince, unanswered>>

WriteErr(r) ==
    /\ emitters[r]["writing"] > 0
    /\ IF Len(errCh[r]) < ErrChCap
       THEN /\ errCh' = [errCh EXCEPT ![r] = Append(@, WrapWriteError(WriteResult(r)))]
            /\ emitters' = [emitters EXCEPT ![r]["writing"] = @ - 1]
       ELSE /\ emitters' = [emitters EXCEPT ![r]["writing"] = @ - 1,
                                            ![r][WriteResult(r)] = @ + 1]
            /\ UNCHANGED errCh
    /\ UNCHANGED <<connect, now, lastPacketSent, lastPacketReceived, lastPingResponse, running,
                   pc, keepAlive, conn, cancelled, result, timerAt,
                   lastPingSent, snap, respSince, unanswered>>

SendErr(r, e) ==
    /\ emitters[r][e] > 0
    /\ Len(errCh[r]) < ErrChCap
    /\ errCh' = [errCh EXCEPT ![r] = Append(@, WrapWriteError(e))]
    /\ emitters' = [emitters EXCEPT ![r][e] = @ - 1]
    /\ UNCHANGED <<connect, now, lastPacketSent, lastPacketReceived, lastPingResponse, running,
                   pc, keepAlive, conn, cancelled, result, timerAt,
                   lastPingSent, snap, respSince, unanswered>>

Controller(r) ==
    \/ SelectCtxDone(r)
    \/ \E t \in Epoch..LastInstant : SelectTimer(r, t)
    \/ TimerDecide(r)
    \/ SelectErrCh(r)

Emitter(r) ==
    \/ WriteOk(r)
    \/ WriteErr(r)
    \/ \E e \in WriteErrors : SendErr(r, e)

Next ==
    \/ Tick
    \/ PacketSent
    \/ PacketReceived
    \/ PingResp
    \/ \E r \in Runs : Cancel(r)
    \/ \E r \in Runs : CloseConn(r)
    \/ \E r \in Runs, k \in KeepAlives, c \in {"nil", "open"} : RunCall(r, k, c)
    \/ \E r \in Runs : Controller(r)
    \/ \E r \in Runs : Emitter(r)

Spec == Init /\ [][Next]_vars


\* One Run call alone: only the first call is made. The other calls never
\* write the locals of a call in the loop, so they add nothing to its progress.
FirstCall == CHOOSE r \in Runs : \A q \in Runs : r <= q

NextFirstCall ==
    \/ Tick
    \/ PacketSent
    \/ PacketReceived
    \/ PingResp
    \/ Cancel(FirstCall)
    \/ CloseConn(FirstCall)
    \/ \E k \in KeepAlives, c \in {"nil", "open"} : RunCall(FirstCall, k, c)
    \/ Controller(FirstCall)
    \/ Emitter(FirstCall)

\* the scheduler runs a ready controller, and select picks a ready case at
\* random, so the ctx.Done() case cannot be passed over forever
Fairness ==
    \A r \in Runs : WF_vars(Controller(r)) /\ SF_vars(SelectCtxDone(r))

LiveSpec == Init /\ [][NextFirstCall]_vars /\ Fairness

TimerReady(r) == timerAt[r] # ZeroTime /\ timerAt[r] <= now

\* ---- the controller on a prompt clock ----------------------------------
\* Run is called at the first instant on a pinger whose traffic state is any
\* earlier state, and the clock does not pass an expired timer: the controller
\* receives from timer.C at the instant the timer expires and finishes the
\* handling of the fire within that instant.
TimedHorizon == Epoch + MaxKeepAlive + MaxKeepAlive + 1
PastInstants == ZeroTime..Epoch

TimedInit ==
    /\ now = Epoch
    /\ lastPacketSent \in PastInstants
    /\ lastPacketReceived \in PastInstants
    /\ lastPingResponse \in PastInstants
    /\ running = FALSE
    /\ pc = [r \in Runs |-> "idle"]
    /\ keepAlive = [r \in Runs |-> 0]
    /\ conn = [r \in Runs |-> "nil"]
    /\ cancelled = [r \in Runs |-> FALSE]
    /\ result = [r \in Runs |-> NoResult]
    /\ timerAt = [r \in Runs |-> ZeroTime]
    /\ lastPingSent = [r \in Runs |-> ZeroTime]
    /\ errCh = [r \in Runs |-> <<>>]
    /\ emitters = [r \in Runs |-> NoEmitters]
    /\ snap = [r \in Runs |-> NoSnap]
    /\ respSince = [r \in Runs |-> FALSE]
    /\ unanswered = [r \in Runs |-> FALSE]
    /\ ConnectAbsent

Urgent(r) == pc[r] = "idle" \/ pc[r] = "snapped" \/ (pc[r] = "select" /\ TimerReady(r))

TickPrompt ==
    /\ now < TimedHorizon
    /\ ~Urgent(FirstCall)
    /\ now' = now + 1
    /\ UNCHANGED <<connect, lastPacketSent, lastPacketReceived, lastPingResponse, running,
                   pc, keepAlive, conn, cancelled, result, timerAt,
                   lastPingSent, errCh, emitters, snap, respSince, unanswered>>

ControllerPrompt(r) ==
    \/ SelectCtxDone(r)
    \/ SelectTimer(r, now)
    \/ TimerDecide(r)
    \/ SelectErrCh(r)

TimedNext ==
    \/ TickPrompt
    \/ PacketSent
    \/ PacketReceived
    \/ PingResp
    \/ Cancel(FirstCall)
    \/ CloseConn(FirstCall)
    \/ \E k \in KeepAlives, c \in {"nil", "open"} : RunCall(FirstCall, k, c)
    \/ ControllerPrompt(FirstCall)
    \/ Emitter(FirstCall)

TimedSpec == TimedInit /\ [][TimedNext]_vars

\* ---- Connect ------------------------------------------------------------
\* a Connect whose Properties are not yet initialised, and any argument p
ConnectInit ==
    /\ now = Epoch
    /\ lastPacketSent = ZeroTime
    /\ lastPacketReceived = ZeroTime
    /\ lastPingResponse = ZeroTime
    /\ running = FALSE
    /\ pc = [r \in Runs |-> "idle"]
    /\ keepAlive = [r \in Runs |-> 0]
    /\ conn = [r \in Runs |-> "nil"]
    /\ cancelled = [r \in Runs |-> FALSE]
    /\ result = [r \in Runs |-> NoResult]
    /\ timerAt = [r \in Runs |-> ZeroTime]
    /\ lastPingSent = [r \in Runs |-> ZeroTime]
    /\ errCh = [r \in Runs |-> <<>>]
    /\ emitters = [r \in Runs |-> NoEmitters]
    /\ snap = [r \in Runs |-> NoSnap]
    /\ respSince = [r \in Runs |-> FALSE]
    /\ unanswered = [r \in Runs |-> FALSE]
    /\ props \in PacketProperties
    /\ cProperties = Nil
    /\ vProperties = Nil
    /\ cpc = "ready"

\* the struct literal assigned to c.Properties
NewConnectProperties ==
    [SessionExpiryInterval |-> props.SessionExpiryInterval,
     AuthMethod |-> props.AuthMethod,
     RequestResponseInfo |-> FALSE,
     RequestProblemInfo |-> TRUE,
     ReceiveMaximum |-> props.ReceiveMaximum]

\* c.InitProperties(p); the dereference of a nil p.RequestProblemInfo panics
\* after c.Properties was assigned
InitProperties ==
    /\ cpc = "ready"
    /\ IF props.RequestResponseInfo # Nil /\ props.RequestProblemInfo = Nil
       THEN /\ cProperties' = Ptr(NewConnectProperties)
            /\ cpc' = "panicked"
       ELSE /\ cProperties' = Ptr([NewConnectProperties EXCEPT
                    !.RequestResponseInfo =
                        IF props.RequestResponseInfo # Nil
                        THEN Deref(props.RequestProblemInfo) = 1
                        ELSE @,
                    !.RequestProblemInfo =
                        IF props.RequestProblemInfo # Nil
                        THEN Deref(props.RequestProblemInfo) = 1
                        ELSE @])
            /\ cpc' = "returned"
    /\ UNCHANGED <<props, vProperties, pinger>>

\* c.Packet(), of a Connect whose Properties were initialised
Packet ==
    /\ cpc = "returned"
    /\ cProperties # Nil
    /\ vProperties' = Ptr(
           [SessionExpiryInterval |-> Deref(cProperties).SessionExpiryInterval,
            AuthMethod |-> Deref(cProperties).AuthMethod,
            ReceiveMaximum |-> Deref(cProperties).ReceiveMaximum,
            RequestResponseInfo |->
                IF Deref(cProperties).RequestResponseInfo THEN Byte(1) ELSE Nil,
            RequestProblemInfo |->
                IF ~Deref(cProperties).RequestProblemInfo THEN Byte(0) ELSE Nil])
    /\ cpc' = "packed"
    /\ UNCHANGED <<props, cProperties, pinger>>

ConnectNext ==
    \/ InitProperties
    \/ Packet

ConnectSpec == ConnectInit /\ [][ConnectNext]_vars

\* ---- properties ---------------------------------------------------------
Holders == {r \in Runs : pc[r] \in InLoop}
Returns(r) == pc[r] \in InLoop /\ pc'[r] = "done"
LocalsOf(r) == <<pc[r], keepAlive[r], conn[r], cancelled[r], result[r], timerAt[r],
                 lastPingSent[r], errCh[r], emitters[r], snap[r]>>

\* C1: at most one Run call is inside the controller loop at any time, and a
\* Run call with keepAlive > 0 and a non-nil conn made while another call is in
\* the loop returns "Run() already in progress", leaves running true and
\* leaves the call in the loop as it was.
MutualExclusion ==
    /\ \A q, r \in Runs : (pc[q] \in InLoop /\ pc[r] \in InLoop) => q = r
    /\ (\E r \in Runs : pc[r] \in InLoop) => running
RejectedWhileRunning ==
    \A r \in Runs :
        (pc[r] = "idle" /\ pc'[r] # "idle" /\ Holders # {}) =>
            \A k \in KeepAlives \ {0} :
                RunCall(r, k, "open") =>
                    /\ result'[r] = ErrAlreadyRunning
                    /\ pc'[r] = "done"
                    /\ running'
                    /\ \A q \in Holders : LocalsOf(q)' = LocalsOf(q)
SingleRunInProgress == [](MutualExclusion) /\ [][RejectedWhileRunning]_vars
SecondRunRejected ==
    \E q, r \in Runs : pc[q] \in InLoop /\ result[r] = ErrAlreadyRunning /\ running

\* C2: whenever every Run call that set running has returned (by cancellation,
\* PINGRESP timeout or write error) running is false, so that a later Run call
\* is not rejected.
RunningClearedOnExit == running => Holders # {}
RunAgainAfterExit ==
    \E q, r \in Runs :
        /\ pc[q] = "done"
        /\ result[q] \in {ErrPingRespTimeout, WrapWriteError(ErrReset), WrapWriteError(ErrClosed)}
        /\ pc[r] \in InLoop

\* C3 as claimed: at a handled timer fire with a PINGREQ dispatched and no
\* PingResp called since the dispatch, Run returns "PINGRESP timed out" and
\* dispatches nothing.
TimeoutWhenNoPingRespSince ==
    [][\A r \in Runs :
         (pc[r] = "snapped" /\ unanswered[r] /\ pc'[r] # "snapped") =>
             /\ result'[r] = ErrPingRespTimeout
             /\ pc'[r] = "done"
             /\ emitters'[r] = emitters[r]]_vars

\* C3 as amended: the same, provided the last PingResp recorded before the
\* dispatch is strictly earlier than the dispatch time; the emitter's write may
\* still be blocked.
TimeoutWhenPingRespOlder ==
    [][\A r \in Runs :
         (/\ pc[r] = "snapped"
          /\ unanswered[r]
          /\ Before(snap[r].lastPingResponse, lastPingSent[r])
          /\ pc'[r] # "snapped") =>
             /\ result'[r] = ErrPingRespTimeout
             /\ pc'[r] = "done"
             /\ emitters'[r] = emitters[r]]_vars
TimedOutWithWriteBlocked ==
    \E r \in Runs :
        /\ result[r] = ErrPingRespTimeout
        /\ unanswered[r]
        /\ emitters[r]["writing"] > 0

\* C4: Run returns "PINGRESP timed out" only at a timer fire before which no
\* PingResp was called since the last dispatch: if every dispatch is followed
\* by a PingResp before the next timer fire, Run never times out.
NoTimeoutWhenAnswered ==
    \A r \in Runs : result[r] = ErrPingRespTimeout => unanswered[r]
AnsweredFireHandled ==
    \E r \in Runs :
        pc[r] = "snapped" /\ ~IsZero(lastPingSent[r]) /\ ~unanswered[r]

\* C5 as claimed: a Run call whose context is cancelled returns nil.
CancelledReturnsNil ==
    [][\A r \in Runs : (cancelled[r] /\ Returns(r)) => result'[r] = Success]_vars

\* C5 as amended: a Run call whose context is cancelled returns nil when it
\* leaves a select at which neither a timer fire nor an emitter error is ready
\* (with one of them ready, select may take that case and Run may return the
\* PINGRESP timeout or the write error).
CancelledAloneReturnsNil ==
    [][\A r \in Runs :
         (/\ pc[r] = "select"
          /\ cancelled[r]
          /\ ~TimerReady(r)
          /\ errCh[r] = <<>>
          /\ pc'[r] # "select") =>
             /\ result'[r] = Success
             /\ pc'[r] = "done"]_vars
CancelledRunReturnedNil ==
    \E r \in Runs :
        /\ pc[r] = "done"
        /\ result[r] = Success
        /\ emitters[r]["writing"] > 0

\* C6: once the context is cancelled a Run call in the loop eventually
\* returns, whatever its emitters do.
CancelledEventuallyReturns ==
    \A r \in Runs : (pc[r] \in InLoop /\ cancelled[r]) ~> (pc[r] = "done")
ReturnedWithEmitterInFlight ==
    \E r \in Runs :
        /\ pc[r] = "done"
        /\ result[r] = Success
        /\ emitters[r]["writing"] > 0
        /\ conn[r] = "open"
        /\ now = LastInstant

\* C7 as claimed: when an emitter has reported a write error, Run returns
\* that error wrapped.
WriteErrorReturned ==
    [][\A r \in Runs :
         (errCh[r] # <<>> /\ Returns(r)) => result'[r] = Head(errCh[r])]_vars

\* C7 as amended: when an emitter has reported a write error and the
\* controller leaves a select at which neither the cancellation nor a timer
\* fire is ready, Run returns "failed to send PINGREQ" wrapping the error the
\* write returned (with one of them ready, select may take that case first).
WriteErrorAloneReturned ==
    [][\A r \in Runs :
         (/\ pc[r] = "select"
          /\ errCh[r] # <<>>
          /\ ~cancelled[r]
          /\ ~TimerReady(r)
          /\ pc'[r] # "select") =>
             /\ pc'[r] = "done"
             /\ result'[r].kind = "failed to send PINGREQ"
             /\ result'[r].cause \in WriteErrors
             /\ (conn[r] = "open" => result'[r].cause = ErrReset)]_vars
WriteErrorSurfaced ==
    \E r \in Runs : pc[r] = "done" /\ result[r] = WrapWriteError(ErrClosed)

\* C8: no emitter stays blocked for ever in its send on errCh: none is
\* blocked on a full errCh whose Run call has returned.
NoEmitterOrphaned ==
    \A r \in Runs, e \in WriteErrors :
        ~(emitters[r][e] > 0 /\ pc[r] = "done" /\ Len(errCh[r]) = ErrChCap)

\* C9: Run with keepAlive = 0 returns nil at once for any conn, and changes
\* nothing else: no timer, no emitter, no write, running as it was.
DisabledKeepAliveNoOp ==
    [][\A r \in Runs, c \in {"nil", "open"} :
         RunCall(r, 0, c) =>
             /\ result'[r] = Success
             /\ pc'[r] = "done"
             /\ UNCHANGED <<running, timerAt, emitters, errCh, conn, keepAlive,
                            lastPingSent, monitor>>]_vars
DisabledKeepAliveWhileRunning ==
    \E q, r \in Runs : q < r /\ pc[q] \in InLoop /\ result[r] = Success

\* C10: Run with keepAlive > 0 and a nil conn returns "conn is nil", does no
\* I/O and leaves running as it was.
NilConnRejected ==
    [][\A r \in Runs, k \in KeepAlives \ {0} :
         RunCall(r, k, "nil") =>
             /\ result'[r] = ErrConnNil
             /\ pc'[r] = "done"
             /\ UNCHANGED <<running, timerAt, emitters, errCh, conn, keepAlive,
                            lastPingSent, monitor>>]_vars
NilConnWhileRunning ==
    \E q, r \in Runs : pc[q] \in InLoop /\ result[r] = ErrConnNil /\ running

\* C11 as claimed: at every handled timer fire with t before the ping deadline
\* the controller dispatches nothing and rearms the timer for pingDue - t.
SuppressedFireRearms ==
    [][\A r \in Runs :
         (/\ pc[r] = "snapped"
          /\ Before(snap[r].t, snap[r].pingDue)
          /\ pc'[r] # "snapped") =>
             /\ emitters'[r] = emitters[r]
             /\ pc'[r] = "select"
             /\ timerAt'[r] = now + (snap[r].pingDue - snap[r].t)]_vars

\* C11 as amended: a timer fire at time t reads a deadline later than t when
\* both PacketSent and PacketReceived were called less than the keepalive
\* interval before t; at every handled fire with t before the deadline the
\* controller dispatches nothing, and when it declares no PINGRESP timeout at
\* that fire it rearms the timer for exactly pingDue - t.
SuppressedFireRearmsUnlessTimeout ==
    [][\A r \in Runs :
         /\ (/\ pc[r] = "select"
             /\ pc'[r] = "snapped"
             /\ snap'[r].t - keepAlive[r] < lastPacketSent
             /\ snap'[r].t - keepAlive[r] < lastPacketReceived) =>
                Before(snap'[r].t, snap'[r].pingDue)
         /\ (/\ pc[r] = "snapped"
             /\ Before(snap[r].t, snap[r].pingDue)
             /\ pc'[r] # "snapped") =>
                /\ emitters'[r] = emitters[r]
                /\ (IsZero(lastPingSent[r]) \/ ~After(lastPingSent[r], snap[r].lastPingResponse)) =>
                       /\ pc'[r] = "select"
                       /\ lastPingSent'[r] = lastPingSent[r]
                       /\ timerAt'[r] = now + (snap[r].pingDue - snap[r].t)]_vars
RearmedAfterInitialPing ==
    \E r \in Runs :
        /\ pc[r] = "select"
        /\ ~IsZero(lastPingSent[r])
        /\ timerAt[r] > lastPingSent[r] + keepAlive[r]
        /\ emitters[r]["writing"] = 1

\* C12: while PacketReceived has never been called, or PacketSent has never
\* been called, every handled timer fire at which no PINGRESP timeout is
\* declared dispatches a PINGREQ, however recent the other notification is.
StalerSideAnchorsDeadline ==
    [][\A r \in Runs :
         (/\ pc[r] = "snapped"
          /\ IsZero(lastPacketSent) \/ IsZero(lastPacketReceived)
          /\ IsZero(lastPingSent[r]) \/ ~After(lastPingSent[r], snap[r].lastPingResponse)
          /\ pc'[r] # "snapped") =>
             /\ pc'[r] = "select"
             /\ lastPingSent'[r] = now
             /\ emitters'[r]["writing"] = emitters[r]["writing"] + 1]_vars
PingedDespiteSentTraffic ==
    \E r \in Runs :
        /\ pc[r] = "select"
        /\ IsZero(lastPacketReceived)
        /\ lastPacketSent = LastInstant
        /\ lastPingSent[r] = LastInstant
        /\ emitters[r]["writing"] = 2

\* C13: with PacketSent and PacketReceived never called, the timer of a new
\* Run is armed for the instant of the call and its first handled fire
\* dispatches a PINGREQ; after a dispatch the timer is armed for one keepalive
\* interval after it, and every handled fire before which PingResp was called
\* since the last dispatch dispatches exactly one more PINGREQ.
IdleTimerArmed ==
    \A r \in Runs :
        (pc[r] = "select" /\ IsZero(lastPacketSent) /\ IsZero(lastPacketReceived)) =>
            IF IsZero(lastPingSent[r])
            THEN TimerReady(r)
            ELSE timerAt[r] = lastPingSent[r] + keepAlive[r]
IdleFireDispatches ==
    \A r \in Runs :
        (/\ pc[r] = "snapped"
         /\ IsZero(lastPacketSent)
         /\ IsZero(lastPacketReceived)
         /\ IsZero(lastPingSent[r]) \/ ~unanswered[r]
         /\ pc'[r] # "snapped") =>
            /\ pc'[r] = "select"
            /\ lastPingSent'[r] = now
            /\ emitters'[r]["writing"] = emitters[r]["writing"] + 1
            /\ timerAt'[r] = now + keepAlive[r]
IdleCadence == [](IdleTimerArmed) /\ [][IdleFireDispatches]_vars
SecondIdlePing ==
    \E r \in Runs :
        /\ pc[r] = "select"
        /\ IsZero(lastPacketSent)
        /\ IsZero(lastPacketReceived)
        /\ lastPingSent[r] = Epoch + keepAlive[r]
        /\ lastPingResponse = Epoch
        /\ emitters[r]["writing"] = 2

\* C14: lastPacketSent, lastPacketReceived and lastPingResponse never
\* decrease, and once non-zero never return to zero, in any step of the
\* notifications and of the Run calls.
MonotonicTrafficState ==
    [][/\ lastPacketSent' >= lastPacketSent
       /\ lastPacketReceived' >= lastPacketReceived
       /\ lastPingResponse' >= lastPingResponse
       /\ ~IsZero(lastPacketSent) => ~IsZero(lastPacketSent')
       /\ ~IsZero(lastPacketReceived) => ~IsZero(lastPacketReceived')
       /\ ~IsZero(lastPingResponse) => ~IsZero(lastPingResponse')]_vars
TrafficStateAdvanced ==
    /\ lastPacketSent = LastInstant
    /\ lastPacketReceived = Epoch
    /\ lastPingResponse = LastInstant
    /\ \E r \in Runs : pc[r] = "done" /\ result[r] = ErrPingRespTimeout

\* C15: Run returns "PINGRESP timed out" only when it has dispatched a PINGREQ
\* and the last PINGRESP time read at the deciding timer fire is strictly
\* earlier than the dispatch time of its latest PINGREQ; when the time read at
\* a fire is at or after that dispatch time the fire declares no timeout.
TimeoutSound ==
    [][\A r \in Runs :
         /\ (Returns(r) /\ result'[r] = ErrPingRespTimeout) =>
                /\ pc[r] = "snapped"
                /\ ~IsZero(lastPingSent[r])
                /\ lastPingSent[r] <= now
                /\ snap[r].lastPingResponse < lastPingSent[r]
         /\ (/\ pc[r] = "snapped"
             /\ snap[r].lastPingResponse >= lastPingSent[r]
             /\ pc'[r] # "snapped") =>
                /\ pc'[r] = "select"
                /\ result'[r] = NoResult]_vars
TimedOutBeforeLateAnswer ==
    \E r \in Runs :
        /\ pc[r] = "done"
        /\ result[r] = ErrPingRespTimeout
        /\ lastPingResponse = LastInstant
        /\ emitters[r]["writing"] = 0

\* C16: a Run call that entered the controller loop returns nil only when its
\* context is cancelled; every other return is "PINGRESP timed out" or a
\* wrapped write error, and the value returned does not change afterwards.
ReturnValues ==
    {Success, ErrPingRespTimeout} \cup {WrapWriteError(e) : e \in WriteErrors}
SuccessOnlyIfCancelled ==
    [][\A r \in Runs :
         /\ Returns(r) =>
                /\ result[r] = NoResult
                /\ result'[r] \in ReturnValues
                /\ result'[r] = Success => cancelled[r]
         /\ pc[r] \in InLoop => (result[r] = NoResult /\ running)
         /\ pc[r] = "done" => (pc'[r] = "done" /\ result'[r] = result[r])]_vars
CancelledAfterClose ==
    \E r \in Runs :
        /\ pc[r] = "done"
        /\ result[r] = Success
        /\ conn[r] = "closed"
        /\ errCh[r] # <<>>

\* C17: a Run call enters the loop with lastPingSent zero, and while it is
\* zero it never returns "PINGRESP timed out", also when an earlier Run call
\* of the same pinger ended by a timeout; no step of a Run call or of an
\* emitter writes lastPacketSent, lastPacketReceived or lastPingResponse.
FreshLocalState ==
    [][/\ \A r \in Runs :
            /\ (pc[r] = "idle" /\ pc'[r] \in InLoop) =>
                   /\ IsZero(lastPingSent'[r])
                   /\ errCh'[r] = <<>>
                   /\ TimerReady(r)'
            /\ (pc[r] \in InLoop /\ IsZero(lastPingSent[r]) /\ pc'[r] = "done") =>
                   result'[r] # ErrPingRespTimeout
       /\ (monitor' # monitor) =>
              UNCHANGED <<pc, keepAlive, conn, cancelled, result, timerAt,
                          lastPingSent, errCh, emitters, snap>>]_vars
PingedAfterTimedOutRun ==
    \E q, r \in Runs :
        /\ pc[q] = "done"
        /\ result[q] = ErrPingRespTimeout
        /\ pc[r] = "select"
        /\ ~IsZero(lastPingSent[r])
        /\ IsZero(lastPingResponse)

\* C18: on the prompt clock, a Run call in the loop whose context is not
\* cancelled and which has no write error reported is never later than two
\* keepalive intervals after the last PacketReceived, the last PingResp and
\* its own start, whatever its emitters' writes do; when it returns in that
\* situation it returns "PINGRESP timed out".
Latest(S) == CHOOSE a \in S : \A b \in S : b <= a
Undisturbed(r) ==
    /\ pc[r] \in InLoop
    /\ ~cancelled[r]
    /\ errCh[r] = <<>>
    /\ \A e \in WriteErrors : emitters[r][e] = 0
DetectionDeadline(r) ==
    Latest({lastPacketReceived, lastPingResponse, Epoch}) + keepAlive[r] + keepAlive[r]
WithinDeadline == \A r \in Runs : Undisturbed(r) => now <= DetectionDeadline(r)
UndisturbedReturn ==
    \A r \in Runs : (Undisturbed(r) /\ Returns(r)) => result'[r] = ErrPingRespTimeout
BoundedDetectionLatency == [](WithinDeadline) /\ [][UndisturbedReturn]_vars
TimedOutAtDeadlineWithWritesBlocked ==
    \E r \in Runs :
        /\ pc[r] = "done"
        /\ result[r] = ErrPingRespTimeout
        /\ emitters[r]["writing"] = 2
        /\ conn[r] = "open"
        /\ lastPacketReceived = Epoch
        /\ lastPingResponse <= Epoch
        /\ lastPacketSent = now
        /\ now = Epoch + MaxKeepAlive + MaxKeepAlive

\* C19: the step that handles a timer fire reads lastPingResponse and the
\* deadline from one state of the monitor, the one it starts in, and no
\* notification takes effect within it; every step that changes the monitor
\* is one notification, which changes one field and no local of a Run call.
StalerOfSentAndReceived ==
    IF lastPacketSent < lastPacketReceived THEN lastPacketSent ELSE lastPacketReceived
SnapshotReadsOneState ==
    \A r \in Runs :
        (pc[r] = "select" /\ pc'[r] = "snapped") =>
            /\ UNCHANGED monitor
            /\ snap'[r].lastPingResponse = lastPingResponse
            /\ snap'[r].pingDue = StalerOfSentAndReceived + keepAlive[r]
            /\ snap'[r].t <= now
NotificationWritesOneField ==
    (monitor' # monitor) =>
        /\ \/ UNCHANGED <<lastPacketSent, lastPacketReceived>>
           \/ UNCHANGED <<lastPacketSent, lastPingResponse>>
           \/ UNCHANGED <<lastPacketReceived, lastPingResponse>>
        /\ \A r \in Runs : LocalsOf(r)' = LocalsOf(r)
SnapshotAtomic == [][SnapshotReadsOneState /\ NotificationWritesOneField]_vars
SnapshotOvertaken ==
    \E r \in Runs :
        /\ pc[r] = "snapped"
        /\ snap[r].lastPingResponse = Epoch
        /\ snap[r].pingDue = Epoch + keepAlive[r]
        /\ lastPingResponse = LastInstant
        /\ lastPacketSent = LastInstant
        /\ lastPacketReceived = LastInstant

\* C20: InitProperties completes for every p, RequestResponseInfo of the
\* result is (p.RequestResponseInfo present and 1) and RequestProblemInfo of
\* the result is (p.RequestProblemInfo absent or 1), each whatever the other
\* field of p is.
InitPropertiesIndependent ==
    (cpc \in {"returned", "panicked", "packed"}) =>
        /\ cpc # "panicked"
        /\ Deref(cProperties).RequestResponseInfo =
               (props.RequestResponseInfo # Nil /\ Deref(props.RequestResponseInfo) = 1)
        /\ Deref(cProperties).RequestProblemInfo =
               (props.RequestProblemInfo = Nil \/ Deref(props.RequestProblemInfo) = 1)

====
